---- MODULE Spec2Model ----
(***************************************************************************)
(* Model of the analysis gateway: the /analyze admission handler           *)
(* (app/main.py), the worker loop (app/worker.py), the LLM dispatcher with *)
(* its permit semaphore (app/groq_client.py), the tolerant JSON extraction *)
(* (app/utils.py) and the result cache (app/cache.py).                     *)
(*                                                                         *)
(* Every asyncio suspension point (an await that can yield to the event    *)
(* loop) ends an action; the code between two suspension points is one     *)
(* atomic action.  The LLM is the environment: the content (or failure) of *)
(* every HTTP reply is chosen nondeterministically.                        *)
(***************************************************************************)
EXTENDS Integers, Sequences, FiniteSets, TLC

VARIABLES
  threshold_pct,  \* BACKPRESSURE_THRESHOLD of this run, in percent (environment)
  cache,          \* app/cache.py: cache key -> cached result, Null when absent
  store,          \* app.state.store: request id -> lifecycle record
  queue,          \* app.state.queue: the items held by the asyncio.Queue
  putters,        \* payloads of analyze() calls suspended in `await q.put`
  unfinished,     \* asyncio.Queue._unfinished_tasks
  next_rid,       \* number of request ids handed out by make_request_id
  pending,        \* analyze() calls suspended in `await cache.get`, per text
  http_reply,     \* the last response /analyze sent (or raised)
  llm_sem,        \* value of groq_client._llm_sem
  pc,             \* per worker: the suspension point it is at
  net,            \* per worker: the LLM's reply its client.post is resumed with
  batch,          \* per worker: local `batch`
  parsed,         \* per worker: local `parsed` of the current batch
  fb_i,           \* per worker: index `i` of the per-item fallback loop
  shutdown        \* shutdown_event has run

vars == <<threshold_pct, cache, store, queue, putters, unfinished, next_rid,
          pending, http_reply, llm_sem, pc, net, batch, parsed, fb_i, shutdown>>

---------------------------------------------------------------------------
(* Configuration (environment variables read at import).                   *)

MAX_QUEUE_SIZE == 1
WORKER_COUNT == 2
BATCH_SIZE == 2
MAX_INFLIGHT == 1

\* Values of BACKPRESSURE_THRESHOLD the runs are started with, in percent:
\* 1.0; 1.5, whose product with MAX_QUEUE_SIZE is no integer; and 2.5, under
\* which the queue's own capacity is what stops the producers.
ThresholdPcts == {100, 150, 250}

(* Bounds of the model.                                                    *)
MaxReq == 2     \* request ids handed out in one run
MaxAdm == 2     \* analyze() calls suspended at the cache lookup at once

Workers == 1..WORKER_COUNT
Rids == 1..MaxReq
NoId == 0       \* obj.get("id") of an object that carries no (or a falsy) id

\* text_blob values: the empty blob and a non-empty one.
Texts == {"", "a"}
Summaries == {"s"}

---------------------------------------------------------------------------
(* JSON values and LLM message contents.                                   *)

Null == [kind |-> "null"]
Scalar == [kind |-> "scalar"]
Obj(i, v) == [kind |-> "dict", id |-> i, val |-> v]
List(items) == [kind |-> "list", items |-> items]
NoJson == [kind |-> "nojson"]
Raw(content) == [kind |-> "raw", raw |-> content]

\* A message content: a JSON text (json) standing alone or, with prose,
\* surrounded by non-JSON text; json = NoJson is text holding no JSON.
Content(prose, json) == [prose |-> prose, json |-> json]

Elements == {Obj(i, v) : i \in {NoId} \cup Rids, v \in Summaries} \cup {Scalar}

SeqsUpTo(S, n) == UNION {[1..k -> S] : k \in 0..n}

\* What the LLM answers a batch call with: an array of up to BATCH_SIZE
\* elements or a single object, as the whole content; or prose, alone or
\* around an array of at most one element or around an object.
BatchJson == {List(s) : s \in SeqsUpTo(Elements, BATCH_SIZE)}
               \cup {Obj(NoId, v) : v \in Summaries}

WrappedJson == {List(s) : s \in SeqsUpTo(Elements, 1)}
                 \cup {Obj(NoId, v) : v \in Summaries} \cup {NoJson}

BatchContents == {Content(FALSE, j) : j \in BatchJson}
                   \cup {Content(TRUE, j) : j \in WrappedJson}

SingleContents ==
  {Content(p, Obj(NoId, v)) : p \in BOOLEAN, v \in Summaries}
    \cup {Content(TRUE, NoJson)}

\* An HTTP exchange with the LLM: a content, or a failure (transport error,
\* non-success status, malformed envelope) raised as an exception.
Ok(content) == [ok |-> TRUE, content |-> content, msg |-> "None"]
Fail(msg) == [ok |-> FALSE, content |-> Content(TRUE, NoJson), msg |-> msg]

NoReply == [ok |-> FALSE, content |-> Content(TRUE, NoJson), msg |-> "None"]

BatchReplies == {Ok(c) : c \in BatchContents} \cup {Fail("upstream_error")}
SingleReplies == {Ok(c) : c \in SingleContents} \cup {Fail("upstream_error")}

extract_json_from_text(s) ==
  IF ~s.prose /\ s.json.kind # "nojson"
    THEN s.json                                  \* json.loads(s) succeeds
    ELSE IF s.json.kind \in {"list", "dict"}
      THEN s.json                                \* the regex finds the block
      ELSE Null                                  \* no match, or it does not load

\* `parsed_single or {"raw": out}` written without its alternative.
TruthyAlways(j) == TRUE

\* Python truthiness of a value returned by extract_json_from_text.
Truthy(j) == ~(j.kind = "null" \/ (j.kind = "list" /\ j.items = <<>>))

---------------------------------------------------------------------------
(* Admission (app/main.py).                                                *)

_hash_text(text) == <<"md5", text>>
CacheKey(text) == <<"analyze:", _hash_text(text)>>
CacheKeys == {CacheKey(t) : t \in Texts \ {""}}

\* int(MAX_QUEUE_SIZE * BACKPRESSURE_THRESHOLD)
Threshold == (MAX_QUEUE_SIZE * threshold_pct) \div 100

\* The comparison written with > in place of >=.
OverloadedStrict(qsize) == qsize > Threshold

\* `if qsize >= int(MAX_QUEUE_SIZE * BACKPRESSURE_THRESHOLD)`
Overloaded(qsize) == qsize >= Threshold

\* A queue constructed without maxsize.
QueueNeverFull == FALSE

\* asyncio.Queue.full()
QueueFull == MAX_QUEUE_SIZE > 0 /\ Len(queue) >= MAX_QUEUE_SIZE

NewRecord(status, result, finished_at) ==
  [status |-> status, result |-> result, error |-> "None",
   finished_at |-> finished_at]

Payload(rid, text) == [id |-> rid, text |-> text, cache_key |-> CacheKey(text)]

\* A response of /analyze: the HTTP status and the body's status and cached.
NoResponse == [code |-> 0, status |-> "None", cached |-> FALSE]
Response(code, status, cached) ==
  [code |-> code, status |-> status, cached |-> cached]

PendingCount == pending["a"]

\* The item enqueued without its record having been written.
CreateRecordSkipped(st, rid, record) == st

\* app.state.store[rid] = {...}
CreateRecord(st, rid, record) == rid :> record @@ st

Init ==
  /\ threshold_pct \in ThresholdPcts
  /\ cache = [k \in CacheKeys |-> Null]
  /\ store = <<>>
  /\ queue = <<>>
  /\ putters = <<>>
  /\ unfinished = 0
  /\ next_rid = 0
  /\ pending = [t \in Texts \ {""} |-> 0]
  /\ http_reply = NoResponse
  /\ llm_sem = MAX_INFLIGHT
  /\ pc = [w \in Workers |-> "get"]
  /\ net = [w \in Workers |-> NoReply]
  /\ batch = [w \in Workers |-> <<>>]
  /\ parsed = [w \in Workers |-> Null]
  /\ fb_i = [w \in Workers |-> 0]
  /\ shutdown = FALSE

\* analyze(), from its entry to `await cache.get(cache_key)`.
AnalyzeBegin(text) ==
  /\ ~shutdown
  /\ IF text = ""
       THEN /\ http_reply' = Response(400, "None", FALSE)
            /\ UNCHANGED pending
       ELSE /\ PendingCount < MaxAdm
            /\ next_rid + PendingCount < MaxReq
            /\ pending' = [pending EXCEPT ![text] = @ + 1]
            /\ UNCHANGED http_reply
  /\ UNCHANGED <<threshold_pct, cache, store, queue, putters, unfinished,
                 next_rid, llm_sem, pc, net, batch, parsed, fb_i, shutdown>>

\* analyze() with the queue's size read before the cache lookup: by the time
\* the handler resumes, the size it holds may be that of an earlier moment.
AnalyzeResumeStaleSize(text) ==
  /\ pending[text] > 0
  /\ pending' = [pending EXCEPT ![text] = @ - 1]
  /\ \E qsize \in 0..Len(queue) :
       LET cached == cache[CacheKey(text)]
           rid == next_rid + 1
       IN IF cached # Null
            THEN /\ next_rid' = rid
                 /\ store' = CreateRecord(store, rid, NewRecord("done", cached, "now"))
                 /\ http_reply' = Response(200, "done", TRUE)
                 /\ UNCHANGED <<queue, putters, unfinished>>
            ELSE IF Overloaded(qsize)
              THEN /\ http_reply' = Response(429, "None", FALSE)
                   /\ UNCHANGED <<store, next_rid, queue, putters, unfinished>>
              ELSE /\ next_rid' = rid
                   /\ store' = CreateRecord(store, rid, NewRecord("queued", Null, "None"))
                   /\ IF QueueFull
                        THEN /\ putters' = Append(putters, Payload(rid, text))
                             /\ UNCHANGED <<queue, unfinished, http_reply>>
                        ELSE /\ queue' = Append(queue, Payload(rid, text))
                             /\ unfinished' = unfinished + 1
                             /\ http_reply' = Response(200, "queued", FALSE)
                             /\ UNCHANGED putters
  /\ UNCHANGED <<threshold_pct, cache, llm_sem, pc, net, batch, parsed, fb_i,
                 shutdown>>

\* analyze(), from the return of cache.get to its response or, when the
\* queue is full, to the suspension inside `await q.put(payload)`.
AnalyzeResume(text) ==
  /\ pending[text] > 0
  /\ pending' = [pending EXCEPT ![text] = @ - 1]
  /\ LET cached == cache[CacheKey(text)]
         rid == next_rid + 1
     IN IF cached # Null
          THEN /\ next_rid' = rid
               /\ store' = CreateRecord(store, rid, NewRecord("done", cached, "now"))
               /\ http_reply' = Response(200, "done", TRUE)
               /\ UNCHANGED <<queue, putters, unfinished>>
          ELSE IF Overloaded(Len(queue))
            THEN /\ http_reply' = Response(429, "None", FALSE)
                 /\ UNCHANGED <<store, next_rid, queue, putters, unfinished>>
            ELSE /\ next_rid' = rid
                 /\ store' = CreateRecord(store, rid, NewRecord("queued", Null, "None"))
                 /\ IF QueueFull
                      THEN /\ putters' = Append(putters, Payload(rid, text))
                           /\ UNCHANGED <<queue, unfinished, http_reply>>
                      ELSE /\ queue' = Append(queue, Payload(rid, text))
                           /\ unfinished' = unfinished + 1
                           /\ http_reply' = Response(200, "queued", FALSE)
                           /\ UNCHANGED putters
  /\ UNCHANGED <<threshold_pct, cache, llm_sem, pc, net, batch, parsed, fb_i,
                 shutdown>>

\* analyze() resumed inside q.put once the queue has room.
PutResume ==
  /\ putters # <<>>
  /\ ~QueueFull
  /\ queue' = Append(queue, Head(putters))
  /\ putters' = Tail(putters)
  /\ unfinished' = unfinished + 1
  /\ http_reply' = Response(200, "queued", FALSE)
  /\ UNCHANGED <<threshold_pct, cache, store, next_rid, pending, llm_sem, pc,
                 net, batch, parsed, fb_i, shutdown>>

---------------------------------------------------------------------------
(* Worker (app/worker.py) and dispatcher (app/groq_client.py).             *)

BatchIds(w) == {batch[w][k].id : k \in 1..Len(batch[w])}

\* queue.task_done() once per item of the batch (the finally block).
TaskDone(w) == unfinished - Len(batch[w])

\* store[rid] = done / result / finished_at (lines 41-43 and 50-52).
MarkDone(st, rid, result) ==
  [st EXCEPT ![rid] = [@ EXCEPT !.status = "done", !.result = result,
                                !.finished_at = "now"]]

\* store[rid] = error / str(e) (lines 54-55 and 59-60).
MarkError(st, rid, msg) ==
  [st EXCEPT ![rid] = [@ EXCEPT !.status = "error", !.error = msg]]

\* The except clause marking the batch's first item alone.
MarkFirstError(st, w, msg) == MarkError(st, batch[w][1].id, msg)

\* The except clause of the batch call: every item of the batch.
MarkBatchError(st, w, msg) ==
  [r \in DOMAIN st |->
     IF r \in BatchIds(w) THEN MarkError(st, r, msg)[r] ELSE st[r]]

\* The loop `for obj in parsed` from its k-th element on: the store it
\* leaves and whether it raised (obj.get on an element that is no object).
RECURSIVE WriteResults(_, _, _)
WriteResults(st, objs, k) ==
  IF k > Len(objs)
    THEN [store |-> st, raised |-> FALSE]
    ELSE LET obj == objs[k]
         IN IF obj.kind # "dict"
              THEN [store |-> st, raised |-> TRUE]
              ELSE IF obj.id # NoId /\ obj.id \in DOMAIN st
                THEN WriteResults(MarkDone(st, obj.id, obj), objs, k + 1)
                ELSE WriteResults(st, objs, k + 1)

\* The same loop, writing the k-th element to the k-th item of the batch.
RECURSIVE WriteByPosition(_, _, _, _)
WriteByPosition(st, b, objs, k) ==
  IF k > Len(objs)
    THEN [store |-> st, raised |-> FALSE]
    ELSE IF objs[k].kind # "dict"
      THEN [store |-> st, raised |-> TRUE]
      ELSE WriteByPosition(MarkDone(st, b[k].id, objs[k]), b, objs, k + 1)

BatchWritesByPosition(w, objs) == WriteByPosition(store, batch[w], objs, 1)

\* Worker w's writes for a parsed array of the batch's length.
BatchWrites(w, objs) == WriteResults(store, objs, 1)

\* The test without its comparison of lengths.
GoodArrayAnyLength(w, p) == p.kind = "list"

\* `isinstance(parsed, list) and len(parsed) == len(batch)`
GoodArray(w, p) == p.kind = "list" /\ Len(p.items) = Len(batch[w])

\* A get that reads the queue's head and leaves it on the queue.
GetPeek(w) ==
  /\ pc[w] = "get"
  /\ queue # <<>>
  /\ batch' = [batch EXCEPT ![w] = <<Head(queue)>>]
  /\ pc' = [pc EXCEPT ![w] = "coalesce"]
  /\ UNCHANGED <<threshold_pct, cache, store, queue, putters, unfinished,
                 next_rid, pending, http_reply, llm_sem, net, parsed, fb_i,
                 shutdown>>

\* item = await queue.get(); batch = [item]
Get(w) ==
  /\ pc[w] = "get"
  /\ queue # <<>>
  /\ queue' = Tail(queue)
  /\ batch' = [batch EXCEPT ![w] = <<Head(queue)>>]
  /\ pc' = [pc EXCEPT ![w] = "coalesce"]
  /\ UNCHANGED <<threshold_pct, cache, store, putters, unfinished, next_rid,
                 pending, http_reply, llm_sem, net, parsed, fb_i, shutdown>>

\* more = await asyncio.wait_for(queue.get(), timeout); batch.append(more)
CoalesceGet(w) ==
  /\ pc[w] = "coalesce"
  /\ Len(batch[w]) < BATCH_SIZE
  /\ queue # <<>>
  /\ queue' = Tail(queue)
  /\ batch' = [batch EXCEPT ![w] = Append(@, Head(queue))]
  /\ UNCHANGED <<threshold_pct, cache, store, putters, unfinished, next_rid,
                 pending, http_reply, llm_sem, pc, net, parsed, fb_i, shutdown>>

\* The coalescing loop ends (the batch is full, or asyncio.TimeoutError) and
\* the worker enters call_groq_batch, up to `async with _llm_sem`.
CoalesceEnd(w) ==
  /\ pc[w] = "coalesce"
  /\ pc' = [pc EXCEPT ![w] = "batch_acquire"]
  /\ UNCHANGED <<threshold_pct, cache, store, queue, putters, unfinished,
                 next_rid, pending, http_reply, llm_sem, net, batch, parsed,
                 fb_i, shutdown>>

\* A call that goes out without waiting for a permit.
AcquireUnguarded(w, at, post) ==
  /\ pc[w] = at
  /\ llm_sem' = llm_sem - 1
  /\ pc' = [pc EXCEPT ![w] = post]
  /\ UNCHANGED <<threshold_pct, cache, store, queue, putters, unfinished,
                 next_rid, pending, http_reply, net, batch, parsed, fb_i,
                 shutdown>>

\* _llm_sem.acquire() succeeds; the worker suspends in client.post.
Acquire(w, at, post) ==
  /\ pc[w] = at
  /\ llm_sem > 0
  /\ llm_sem' = llm_sem - 1
  /\ pc' = [pc EXCEPT ![w] = post]
  /\ UNCHANGED <<threshold_pct, cache, store, queue, putters, unfinished,
                 next_rid, pending, http_reply, net, batch, parsed, fb_i,
                 shutdown>>

BatchAcquire(w) == Acquire(w, "batch_acquire", "batch_post")

SingleAcquire(w) == Acquire(w, "single_acquire", "single_post")

\* _llm_sem.release() on leaving `async with _llm_sem`.
Release == llm_sem + 1

\* The answers to worker w's batch call: the LLM returns an array of at most
\* as many elements as the call held items (or no array, or a failure).
BatchRepliesFor(w) ==
  {reply \in BatchReplies :
     (reply.ok /\ reply.content.json.kind = "list")
        => Len(reply.content.json.items) <= Len(batch[w])}

\* The LLM answers worker w's request (or the exchange fails): the future
\* client.post awaits is resolved; the worker itself has not resumed yet.
LlmReply(w) ==
  /\ net[w] = NoReply
  /\ \/ /\ pc[w] = "batch_post"
        /\ \E reply \in BatchRepliesFor(w) : net' = [net EXCEPT ![w] = reply]
     \/ /\ pc[w] = "single_post"
        /\ \E reply \in SingleReplies : net' = [net EXCEPT ![w] = reply]
  /\ UNCHANGED <<threshold_pct, cache, store, queue, putters, unfinished,
                 next_rid, pending, http_reply, llm_sem, pc, batch, parsed,
                 fb_i, shutdown>>

\* The content of a reply that is prose holding no JSON text.
Prose == Content(TRUE, NoJson)

\* An LLM that answers every call, batch or single, with prose (and whose
\* exchanges all succeed).
ProseReply(w) ==
  /\ net[w] = NoReply
  /\ pc[w] \in {"batch_post", "single_post"}
  /\ net' = [net EXCEPT ![w] = Ok(Prose)]
  /\ UNCHANGED <<threshold_pct, cache, store, queue, putters, unfinished,
                 next_rid, pending, http_reply, llm_sem, pc, batch, parsed,
                 fb_i, shutdown>>

\* The worker is back at `item = await queue.get()`: batch, parsed and i are
\* dead (each is assigned again before it is read) and are reset.
BackToGet(w) ==
  /\ pc' = [pc EXCEPT ![w] = "get"]
  /\ batch' = [batch EXCEPT ![w] = <<>>]
  /\ parsed' = [parsed EXCEPT ![w] = Null]
  /\ fb_i' = [fb_i EXCEPT ![w] = 0]

\* The worker resumes from the batch call: lines 33-63 up to the next await.
BatchReturn(w) ==
  /\ pc[w] = "batch_post"
  /\ net[w] # NoReply
  /\ net' = [net EXCEPT ![w] = NoReply]
  /\ llm_sem' = Release
  /\ LET reply == net[w]
         p == extract_json_from_text(reply.content)
     IN IF ~reply.ok
          THEN /\ store' = MarkBatchError(store, w, reply.msg)
               /\ unfinished' = TaskDone(w)
               /\ BackToGet(w)
          ELSE IF GoodArray(w, p)
            THEN LET r == BatchWrites(w, p.items)
                 IN /\ store' =
                         IF r.raised
                           THEN MarkBatchError(r.store, w, "AttributeError")
                           ELSE r.store
                    /\ unfinished' = TaskDone(w)
                    /\ BackToGet(w)
            ELSE /\ parsed' = [parsed EXCEPT ![w] = p]
                 /\ fb_i' = [fb_i EXCEPT ![w] = 1]
                 /\ pc' = [pc EXCEPT ![w] = "single_acquire"]
                 /\ UNCHANGED <<store, unfinished, batch>>
  /\ UNCHANGED <<threshold_pct, cache, queue, putters, next_rid, pending,
                 http_reply, shutdown>>

\* The worker resumes from the per-item call for batch[i]: lines 48-55, then
\* the next item's call or, after the last item, the finally block.
SingleReturn(w) ==
  /\ pc[w] = "single_post"
  /\ net[w] # NoReply
  /\ net' = [net EXCEPT ![w] = NoReply]
  /\ llm_sem' = Release
  /\ LET b == batch[w][fb_i[w]]
         reply == net[w]
         parsed_single == extract_json_from_text(reply.content)
     IN store' =
          IF reply.ok
            THEN MarkDone(store, b.id,
                          IF Truthy(parsed_single)
                            THEN parsed_single
                            ELSE Raw(reply.content))
            ELSE MarkError(store, b.id, reply.msg)
  /\ IF fb_i[w] < Len(batch[w])
       THEN /\ fb_i' = [fb_i EXCEPT ![w] = @ + 1]
            /\ pc' = [pc EXCEPT ![w] = "single_acquire"]
            /\ UNCHANGED <<unfinished, batch, parsed>>
       ELSE /\ unfinished' = TaskDone(w)
            /\ BackToGet(w)
  /\ UNCHANGED <<threshold_pct, cache, queue, putters, next_rid, pending,
                 http_reply, shutdown>>

---------------------------------------------------------------------------
(* Shutdown (app/main.py, shutdown_event): every worker task is cancelled.  *)
(* CancelledError is no Exception: neither except clause of the worker     *)
(* catches it; a worker inside the try block runs its finally block, and a *)
(* worker inside `async with _llm_sem` releases the permit.                *)

InTry(w) ==
  pc[w] \in {"batch_acquire", "batch_post", "single_acquire", "single_post"}

HoldsPermit(w) == pc[w] \in {"batch_post", "single_post"}

RECURSIVE SumOver(_, _)
SumOver(S, f) ==
  IF S = {}
    THEN 0
    ELSE LET x == CHOOSE y \in S : TRUE
         IN f[x] + SumOver(S \ {x}, f)

Shutdown ==
  /\ ~shutdown
  /\ shutdown' = TRUE
  /\ pc' = [w \in Workers |-> "cancelled"]
  /\ net' = [w \in Workers |-> NoReply]
  /\ unfinished' = unfinished
        - SumOver(Workers, [w \in Workers |-> IF InTry(w) THEN Len(batch[w]) ELSE 0])
  /\ llm_sem' = llm_sem + Cardinality({w \in Workers : HoldsPermit(w)})
  /\ UNCHANGED <<threshold_pct, cache, store, queue, putters, next_rid,
                 pending, http_reply, batch, parsed, fb_i>>

---------------------------------------------------------------------------

Next ==
  \/ \E text \in Texts : AnalyzeBegin(text)
  \/ \E text \in Texts \ {""} : AnalyzeResume(text)
  \/ PutResume
  \/ \E w \in Workers :
       \/ Get(w)
       \/ CoalesceGet(w)
       \/ CoalesceEnd(w)
       \/ BatchAcquire(w)
       \/ SingleAcquire(w)
       \/ LlmReply(w)
       \/ BatchReturn(w)
       \/ SingleReturn(w)
  \/ Shutdown

Spec == Init /\ [][Next]_vars

\* The program run against an LLM that only ever answers with prose.
NextProse ==
  \/ \E text \in Texts : AnalyzeBegin(text)
  \/ \E text \in Texts \ {""} : AnalyzeResume(text)
  \/ PutResume
  \/ \E w \in Workers :
       \/ Get(w)
       \/ CoalesceGet(w)
       \/ CoalesceEnd(w)
       \/ BatchAcquire(w)
       \/ SingleAcquire(w)
       \/ ProseReply(w)
       \/ BatchReturn(w)
       \/ SingleReturn(w)
  \/ Shutdown

ProseSpec == Init /\ [][NextProse]_vars

\* The program while it is not shut down.
NextLive ==
  \/ \E text \in Texts : AnalyzeBegin(text)
  \/ \E text \in Texts \ {""} : AnalyzeResume(text)
  \/ PutResume
  \/ \E w \in Workers :
       \/ Get(w)
       \/ CoalesceGet(w)
       \/ CoalesceEnd(w)
       \/ BatchAcquire(w)
       \/ SingleAcquire(w)
       \/ LlmReply(w)
       \/ BatchReturn(w)
       \/ SingleReturn(w)

\* The event loop runs every task that is ready: a handler or worker whose
\* await has completed resumes, and the coalescing wait ends by its timeout.
\* asyncio.Semaphore wakes its waiters in FIFO order, so a worker waiting
\* for a permit that keeps being released gets one.  Every LLM call returns
\* or fails.
Fairness ==
  /\ WF_vars(PutResume)
  /\ \A text \in Texts \ {""} : WF_vars(AnalyzeResume(text))
  /\ \A w \in Workers :
       /\ WF_vars(Get(w) \/ CoalesceGet(w) \/ CoalesceEnd(w))
       /\ WF_vars(BatchReturn(w) \/ SingleReturn(w))
       /\ SF_vars(BatchAcquire(w) \/ SingleAcquire(w))
       /\ WF_vars(LlmReply(w))

LiveSpec == Init /\ [][NextLive]_vars /\ Fairness

---------------------------------------------------------------------------
(* Properties.                                                             *)

Terminal == {"done", "error"}

\* The items a worker or the queue holds, as one sequence of ids.
RECURSIVE Concat(_)
Concat(ss) == IF ss = <<>> THEN <<>> ELSE Head(ss) \o Concat(Tail(ss))

IdsOf(items) == [k \in 1..Len(items) |-> items[k].id]

HeldIds ==
  IdsOf(queue) \o IdsOf(putters) \o Concat([w \in Workers |-> IdsOf(batch[w])])

NoRepeat(ids) == \A i, j \in 1..Len(ids) : ids[i] = ids[j] => i = j

InFlight == {w \in Workers : pc[w] \in {"batch_post", "single_post"}}

\* C1: once a record's status is done or error, no later step changes its
\* status, result or error.
C1_TerminalIsFinal ==
  [][\A r \in DOMAIN store :
       store[r].status \in Terminal =>
         /\ store'[r].status = store[r].status
         /\ store'[r].result = store[r].result
         /\ store'[r].error = store[r].error]_vars

\* C2: the number of LLM HTTP calls in flight (batch and single calls of
\* all workers together) is at most MAX_INFLIGHT.
C2_InflightBounded == Cardinality(InFlight) <= MAX_INFLIGHT

\* MAX_INFLIGHT calls are in flight and another worker waits for a permit.
C2_Witness ==
  /\ WORKER_COUNT > MAX_INFLIGHT
  /\ Cardinality(InFlight) = MAX_INFLIGHT
  /\ \E w \in Workers : pc[w] \in {"batch_acquire", "single_acquire"}

\* C3: the work queue never holds more than MAX_QUEUE_SIZE items.
C3_QueueBounded == Len(queue) <= MAX_QUEUE_SIZE

\* The queue is full and an admission is suspended in q.put.
C3_Witness == Len(queue) = MAX_QUEUE_SIZE /\ putters # <<>>

\* C4: every item that is on the queue, is being put on it or is held in a
\* worker's batch has a record in the store, and no two such items share an
\* id (one record per admitted item).
C4_RecordBeforeQueue ==
  /\ \A k \in 1..Len(HeldIds) : HeldIds[k] \in DOMAIN store
  /\ NoRepeat(HeldIds)

\* A worker holds an item in its batch while another item waits on the queue.
C4_Witness ==
  /\ queue # <<>>
  /\ \E w \in Workers : batch[w] # <<>> /\ store[batch[w][1].id].status = "queued"

\* C5: when a worker resolves an item of its batch to done from the batch
\* response, the result is in the cache under the item's cache_key (so that
\* a later identical submission is answered from the cache).
C5_DoneIsCached ==
  [][\A w \in Workers : \A k \in 1..Len(batch[w]) :
       LET b == batch[w][k]
       IN (pc[w] = "batch_post" /\ pc'[w] = "get"
             /\ store[b.id].status # "done" /\ store'[b.id].status = "done")
            => cache'[b.cache_key] = store'[b.id].result]_vars

\* Worker w's batch call has been answered with content that parses to p.
Answered(w) == pc[w] = "batch_post" /\ net[w].ok
ParsedReply(w) == extract_json_from_text(net[w].content)

\* Worker w resumes from its call in this step (it is not cancelled).
Resumes(w) == net[w] # NoReply /\ net'[w] = NoReply /\ pc'[w] # "cancelled"

AllObjects(p) == \A k \in 1..Len(p.items) : p.items[k].kind = "dict"
ElementIds(p) == {p.items[k].id : k \in 1..Len(p.items)}

\* The answer is an array of the batch's length holding one object per
\* batch id, in any order.
OnePerId(w) ==
  /\ Answered(w)
  /\ GoodArray(w, ParsedReply(w))
  /\ AllObjects(ParsedReply(w))
  /\ ElementIds(ParsedReply(w)) = BatchIds(w)

ElementFor(p, rid) ==
  p.items[CHOOSE k \in 1..Len(p.items) : p.items[k].id = rid]

\* C6: matching is by id: when the batch answer holds one well-formed
\* element per batch id, in whatever order, then once the worker has handled
\* it every item of the batch is done with the element carrying its own id
\* as result.
C6_MatchById ==
  [][\A w \in Workers :
       (OnePerId(w) /\ Resumes(w)) =>
          \A k \in 1..Len(batch[w]) :
            LET rid == batch[w][k].id
            IN /\ store'[rid].status = "done"
               /\ store'[rid].result = ElementFor(ParsedReply(w), rid)
               /\ store'[rid].result.id = rid]_vars

\* A two-item batch is answered with its elements in the reverse order.
C6_Witness ==
  \E w \in Workers :
    /\ OnePerId(w)
    /\ Len(batch[w]) = 2
    /\ ParsedReply(w).items[1].id = batch[w][2].id
    /\ ParsedReply(w).items[2].id = batch[w][1].id

\* The answer is an array of objects that lacks the element of exactly one
\* batch item and holds the elements of the others.
OmitsOne(w, p) ==
  /\ p.kind = "list"
  /\ Len(p.items) = Len(batch[w]) - 1
  /\ AllObjects(p)
  /\ ElementIds(p) \subseteq BatchIds(w)
  /\ Cardinality(ElementIds(p)) = Len(p.items)

InFallback(w) == pc[w] \in {"single_acquire", "single_post"}

\* C7 as claimed: after an answer that omits one item's element, a per-item
\* call is made for the omitted item only, and the items whose elements are
\* present are resolved from the batch answer.
C7_FallbackOnlyForOmitted ==
  \A w \in Workers :
    (pc[w] = "single_post" /\ OmitsOne(w, parsed[w])) =>
       batch[w][fb_i[w]].id \notin ElementIds(parsed[w])

\* C7 as the code has it: an answer whose array is shorter than the batch
\* resolves no item; the worker starts the per-item fallback at the batch's
\* first item, and each return of a per-item call writes that item's record
\* done or error and moves on to the next item of the batch, whether or not
\* the batch answer held an element for it.
C7_FallbackForWholeBatch ==
  [][\A w \in Workers :
       /\ (Answered(w) /\ OmitsOne(w, ParsedReply(w)) /\ Resumes(w)) =>
            /\ store' = store
            /\ batch'[w] = batch[w]
            /\ pc'[w] = "single_acquire"
            /\ fb_i'[w] = 1
       /\ (pc[w] = "single_post" /\ Resumes(w)) =>
            /\ store'[batch[w][fb_i[w]].id].status \in Terminal
            /\ \A r \in DOMAIN store :
                 r # batch[w][fb_i[w]].id => store'[r] = store[r]
            /\ IF fb_i[w] < Len(batch[w])
                 THEN /\ pc'[w] = "single_acquire"
                      /\ fb_i'[w] = fb_i[w] + 1
                      /\ batch'[w] = batch[w]
                 ELSE pc'[w] = "get"]_vars

\* A per-item call is in flight for an item whose element the batch answer
\* held, the answer having omitted another item's element.
C7_Witness ==
  \E w \in Workers :
    /\ pc[w] = "single_post"
    /\ OmitsOne(w, parsed[w])
    /\ batch[w][fb_i[w]].id \in ElementIds(parsed[w])
    /\ store[batch[w][fb_i[w]].id].status = "queued"

\* C8: when the answer is an array of objects of the batch's length in which
\* some batch item's id does not occur, the worker goes on to the per-item
\* fallback (a single call for that item) instead of finishing the batch.
C8_MissingIdFallsBack ==
  [][\A w \in Workers :
       (/\ Answered(w)
        /\ GoodArray(w, ParsedReply(w))
        /\ AllObjects(ParsedReply(w))
        /\ BatchIds(w) \ ElementIds(ParsedReply(w)) # {}
        /\ Resumes(w))
         => InFallback(w)']_vars

\* C9: a record's status changes only from queued to processing and from
\* processing to done or error.
C9_StatusPath ==
  [][\A r \in DOMAIN store :
       store'[r].status # store[r].status =>
         \/ store[r].status = "queued" /\ store'[r].status = "processing"
         \/ store[r].status = "processing" /\ store'[r].status \in Terminal]_vars

\* analyze() resumes from the cache lookup in this step.
AdmissionResumes(text) == pending'[text] < pending[text]

Rejected429 == Response(429, "None", FALSE)
Rejected400 == Response(400, "None", FALSE)

\* C10: an admission with non-empty input and no cache hit is rejected with
\* 429 exactly when the queue size it reads is at least
\* floor(MAX_QUEUE_SIZE x BACKPRESSURE_THRESHOLD), and is otherwise accepted
\* (a queued record, and its item on the queue or, the queue being full, in
\* a suspended put; whatever was rejected before); a rejected
\* admission, 429 or 400, creates no record and enqueues nothing.
C10_Backpressure ==
  [][/\ \A text \in Texts \ {""} :
          (AdmissionResumes(text) /\ cache[CacheKey(text)] = Null) =>
             IF Len(queue) >= (MAX_QUEUE_SIZE * threshold_pct) \div 100
               THEN /\ http_reply' = Rejected429
                    /\ UNCHANGED <<store, next_rid, queue, putters, unfinished>>
               ELSE /\ next_rid' = next_rid + 1
                    /\ DOMAIN store' = DOMAIN store \cup {next_rid'}
                    /\ store'[next_rid'].status = "queued"
                    /\ Len(queue') + Len(putters')
                          = Len(queue) + Len(putters) + 1
                    /\ \E k \in 1..Len(queue' \o putters') :
                          (queue' \o putters')[k].id = next_rid'
                    /\ http_reply' # Rejected429 \/ putters' # putters
     /\ (http_reply' # http_reply /\ http_reply' \in {Rejected429, Rejected400})
           => UNCHANGED <<store, next_rid, queue, putters, unfinished>>]_vars

\* The last admission was rejected with 429, the workers have since drained
\* the queue below the threshold, and another admission is under way.
C10_Witness ==
  /\ http_reply = Rejected429
  /\ Len(queue) < Threshold
  /\ next_rid > 0
  /\ PendingCount > 0

TypeOK ==
  /\ llm_sem \in 0..MAX_INFLIGHT
  /\ next_rid \in 0..MaxReq
  /\ DOMAIN store = 1..next_rid

\* Worker w has handled every item of its batch before position k.
HandledBefore(w, k) ==
  IF pc[w] \in {"single_acquire", "single_post"} THEN k < fb_i[w] ELSE FALSE

\* C11: against an LLM that answers the batch call and every per-item call
\* with prose (every exchange succeeding), no record is ever written error,
\* every record written done holds {"raw": <the prose>}, the prose answer to
\* a batch call sends the worker into the per-item fallback, and each per-item
\* answer writes its item done with the raw content; so every item a worker
\* has handled is done with a raw result.
C11_ProseEndsDoneRaw ==
  /\ [](\A r \in DOMAIN store :
          /\ store[r].status # "error"
          /\ store[r].status = "done" =>
                store[r].result = Raw(Prose) /\ store[r].finished_at # "None")
  /\ [](\A w \in Workers : \A k \in 1..Len(batch[w]) :
          HandledBefore(w, k) => store[batch[w][k].id].status = "done")
  /\ [][\A w \in Workers :
          /\ (pc[w] = "batch_post" /\ Resumes(w)) =>
                pc'[w] = "single_acquire" /\ fb_i'[w] = 1 /\ store' = store
          /\ (pc[w] = "single_post" /\ Resumes(w)) =>
                LET rid == batch[w][fb_i[w]].id
                IN /\ store'[rid].status = "done"
                   /\ store'[rid].result = Raw(net[w].content)
                   /\ pc'[w] = "get" =>
                         \A k \in 1..Len(batch[w]) :
                           store'[batch[w][k].id].status = "done"]_vars

\* A worker has resolved the first item of a two-item batch to done with the
\* raw content and its per-item call for the second item has been answered.
C11_Witness ==
  \E w \in Workers :
    /\ pc[w] = "single_post"
    /\ Len(batch[w]) = 2
    /\ fb_i[w] = 2
    /\ net[w] = Ok(Prose)
    /\ store[batch[w][1].id].status = "done"
    /\ store[batch[w][1].id].result = Raw(Prose)

\* Worker w's batch call has failed: the exchange raised.
BatchCallFailed(w) == pc[w] = "batch_post" /\ net[w] # NoReply /\ ~net[w].ok

\* C12: when the batch call fails, the worker on resuming writes every item
\* of the batch error with the upstream message and leaves every other record
\* as it was, makes no per-item call, signals task completion once per item, gives its
\* permit back and is at queue.get again for the next batch.
C12_BatchFailureMarksAll ==
  [][\A w \in Workers :
       (BatchCallFailed(w) /\ Resumes(w)) =>
          /\ \A k \in 1..Len(batch[w]) :
               /\ store'[batch[w][k].id].status = "error"
               /\ store'[batch[w][k].id].error = net[w].msg
               /\ store'[batch[w][k].id].result = store[batch[w][k].id].result
          /\ \A r \in DOMAIN store \ BatchIds(w) : store'[r] = store[r]
          /\ ~InFallback(w)'
          /\ pc'[w] = "get"
          /\ unfinished' = unfinished - Len(batch[w])
          /\ llm_sem' = llm_sem + 1
          /\ queue' = queue]_vars

\* The batch call of a worker holding two queued items has failed.
C12_Witness ==
  \E w \in Workers :
    /\ BatchCallFailed(w)
    /\ Len(batch[w]) = 2
    /\ \A k \in 1..2 : store[batch[w][k].id].status = "queued"

\* The items dequeued by workers that are still running (not cancelled).
HeldByRunning ==
  SumOver(Workers,
          [w \in Workers |-> IF pc[w] = "cancelled" THEN 0 ELSE Len(batch[w])])

\* C13: task completion is signalled exactly once per dequeued item, whatever
\* the outcome, cancellation at any suspension point included: the
\* completions the queue still waits for are those of the items on the queue
\* and of the items held by workers that are still running; a worker that
\* has exited owes none.
C13_TaskDoneOncePerItem == unfinished = Len(queue) + HeldByRunning

\* No batch has been finished or sent to the LLM and no coalescing window
\* has expired: every worker is idle at queue.get or inside its window.
WithinFirstWindow ==
  /\ \A w \in Workers : pc[w] \in {"get", "coalesce"}
  /\ \A r \in DOMAIN store : store[r].status = "queued"
  /\ unfinished = next_rid
  /\ putters = <<>>

\* C14: with two workers, while the requests admitted so far (at most
\* BATCH_SIZE of them, all workers having been idle) arrive within the first
\* one's coalescing window, they are collected into one batch: no second
\* worker holds any of them, so that one batch call carries them all.
C14_OneBatchForBurst ==
  (WORKER_COUNT = 2 /\ next_rid <= BATCH_SIZE /\ WithinFirstWindow) =>
     Cardinality({w \in Workers : batch[w] # <<>>}) <= 1

\* C15: every record whose status is done or error has a finished_at.
C15_TerminalHasFinishedAt ==
  \A r \in DOMAIN store :
    store[r].status \in Terminal => store[r].finished_at # "None"

\* Worker w is in call_groq_batch (waiting for a permit or for the answer).
InBatchCall(w) == pc[w] \in {"batch_acquire", "batch_post"}

\* ids and texts of worker w's batch call (lines 28-29).
CallIds(w) == [k \in 1..Len(batch[w]) |-> batch[w][k].id]
CallTexts(w) == [k \in 1..Len(batch[w]) |-> batch[w][k].text]

C18_QueuedEventuallyTerminal ==
  \A r \in Rids :
    (r \in DOMAIN store /\ store[r].status = "queued")
       ~> (r \in DOMAIN store /\ store[r].status \in Terminal)

\* C19: a worker that resumes from an LLM call changes only records of items
\* of its own current batch, whatever the answer holds; every other record
\* stays as it was.
C19_SingleWriter ==
  [][\A w \in Workers :
       Resumes(w) =>
         \A r \in DOMAIN store \ BatchIds(w) : store'[r] = store[r]]_vars

\* C20: with 0 < BACKPRESSURE_THRESHOLD <= 1 the queue never holds more
\* than floor(MAX_QUEUE_SIZE x BACKPRESSURE_THRESHOLD) items, however the
\* admissions interleave, and no admission is ever suspended in q.put.
C20_ThresholdCap ==
  (0 < threshold_pct /\ threshold_pct <= 100) =>
     /\ Len(queue) <= (MAX_QUEUE_SIZE * threshold_pct) \div 100
     /\ putters = <<>>

\* Two admissions were suspended at the cache lookup at once; the first to
\* resume has filled the queue up to the threshold and the other has yet to
\* read the queue's size.
C20_Witness ==
  /\ threshold_pct <= 100
  /\ Len(queue) = Threshold
  /\ Len(queue) > 0
  /\ http_reply = Response(200, "queued", FALSE)
  /\ PendingCount > 0

====
